---- MODULE Spec2Model ----
(***************************************************************************)
(* cairoplot/series.py: the validated point value (Data) and the validated *)
(* ordered collection of points (Series).                                  *)
(*                                                                         *)
(* Python values are tagged records [t, n, s, e]: t is the value's type,   *)
(* n an integer payload, s a text payload and e the items of a tuple or a  *)
(* list.  Data objects live in a heap of cells, so that two references to  *)
(* one object can be told from two equal objects.                          *)
(***************************************************************************)
EXTENDS Integers, Sequences, FiniteSets, TLC

\* ------------------------------------------------------------------ bounds
\* tuples offered as Data content have 0..MaxTupleLen items
MaxTupleLen == 4
\* the caller's list (and so a series) holds at most MaxLen items
MaxLen == 2

\* ------------------------------------------------------------------ values
Val(t, n, s, e) == [t |-> t, n |-> n, s |-> s, e |-> e]
None == Val("none", 0, "", <<>>)
Num(k) == Val("int", k, "", <<>>)
Str(x) == Val("str", 0, x, <<>>)
Tup(es) == Val("tuple", 0, "", es)
List(es) == Val("list", 0, "", es)
\* a reference to the Data object in heap cell i
Ref(i) == Val("Data", i, "", <<>>)
\* an attribute that was never assigned
Unset == Val("unset", 0, "", <<>>)

NUM_TYPES == {"int", "float", "long"}
STR_TYPES == {"str", "unicode"}

\* the outcomes of a call: OK, or the TypeError the code raises, named after
\* the failure each message reports
OK == "ok"
InvalidContentArity == "InvalidContentArity"
InvalidContentElementType == "InvalidContentElementType"
InvalidContentType == "InvalidContentType"
InvalidNameType == "InvalidNameType"
InvalidSeriesType == "InvalidSeriesType"
InvalidSeriesMixedShape == "InvalidSeriesMixedShape"
\* None[:] or 0[:]: the interpreter's own TypeError
NotSubscriptable == "NotSubscriptable"

Range(f) == {f[i] : i \in DOMAIN f}
\* max(...) of a non-empty sequence of booleans
MaxBool(bs) == \E i \in 1..Len(bs) : bs[i]
\* x[:]
Slice(x) ==
    IF x.t \in {"tuple", "list"}
    THEN [val |-> Val(x.t, 0, "", SubSeq(x.e, 1, Len(x.e))), err |-> OK]
    ELSE [val |-> x, err |-> NotSubscriptable]

\* -------------------------------------------------------------------- Data
\* the lambda the content setter calls is_num: true of a NON-number
is_not_num(x) == x.t \notin NUM_TYPES

Scalar3D(c) == Tup(<<c, Num(0), Num(0)>>)

Point2D_swapped(c) == Tup(<<c.e[1], Num(0), c.e[2]>>)

Point2D(c) == Tup(<<c.e[1], c.e[2], Num(0)>>)

Point3D(c) == Slice(c).val

ArityOK_1to3(c) == Len(c.e) \in {1, 2, 3}

ArityOK(c) == Len(c.e) \in {2, 3}

\* Data.content setter: the stored content after the call, and the outcome
Data_content(old, c) ==
    IF c.t = "none" THEN [content |-> None, err |-> OK]
    ELSE IF c.t \in NUM_TYPES THEN [content |-> Scalar3D(c), err |-> OK]
    ELSE IF c.t = "tuple" THEN
        IF ~ArityOK(c) THEN [content |-> old, err |-> InvalidContentArity]
        ELSE IF MaxBool([i \in 1..Len(c.e) |-> is_not_num(c.e[i])])
        THEN [content |-> old, err |-> InvalidContentElementType]
        ELSE IF Len(c.e) = 2 THEN [content |-> Point2D(c), err |-> OK]
        ELSE IF Len(c.e) = 3 THEN [content |-> Point3D(c), err |-> OK]
        ELSE [content |-> old, err |-> OK]
    ELSE [content |-> Num(0), err |-> InvalidContentType]

\* Data.name setter (Series.name is the same code)
Data_name(old, nm) ==
    IF nm.t \in STR_TYPES /\ Len(nm.s) > 0 THEN [name |-> nm, err |-> OK]
    ELSE IF nm.t = "none" THEN [name |-> None, err |-> OK]
    ELSE [name |-> None, err |-> InvalidNameType]

DataObj(nm, c) == [live |-> TRUE, name |-> nm, content |-> c]
FreeCell == [live |-> FALSE, name |-> None, content |-> None]

\* Data.__init__: content first, then name; a raise discards the object
Data_init(nm, c) ==
    LET rc == Data_content(Unset, c)
        rn == Data_name(Unset, nm)
    IN  IF rc.err # OK THEN [obj |-> FreeCell, err |-> rc.err]
        ELSE IF rn.err # OK THEN [obj |-> FreeCell, err |-> rn.err]
        ELSE [obj |-> DataObj(rn.name, rc.content), err |-> OK]

\* Data.clear
Data_clear(self) ==
    DataObj(Data_name(self.name, None).name,
            Data_content(self.content, None).content)

\* Data.copy: the new object, or the error that ends the call
Data_copy(self) ==
    LET new == Data_init(None, None).obj
        rn == IF self.name # None THEN Data_name(new.name, self.name)
              ELSE [name |-> new.name, err |-> OK]
        sl == Slice(self.content)
        rc == Data_content(new.content, sl.val)
    IN  IF rn.err # OK THEN [obj |-> FreeCell, err |-> rn.err]
        ELSE IF sl.err # OK THEN [obj |-> FreeCell, err |-> sl.err]
        ELSE IF rc.err # OK THEN [obj |-> FreeCell, err |-> rc.err]
        ELSE [obj |-> DataObj(rn.name, rc.content), err |-> OK]

\* Data.__eq__
Data_eq(x, y) == x.name = y.name /\ x.content = y.content

\* ------------------------------------------------------------------- heap
\* cells for the caller's two Data variables and the Data objects a series
\* owns.  An object the call itself makes unreachable (the one a rebound
\* variable pointed to, the old items of a series) gives its cell back to the
\* call: no reference is left that could tell the new object from the old.
DataIds == 1..(MaxLen + 2)

\* the cells the Data references among a list's items point to
RefsIn(l) == {l[i].n : i \in {j \in 1..Len(l) : l[j].t = "Data"}}
\* the cells reachable from the caller's variables ra, rb and list l, and
\* from the series' stored sequence sc
Live(ra, rb, l, sc) == ({ra, rb} \ {0}) \cup RefsIn(l) \cup Range(sc)
\* object creation: the lowest cell no reference points to
Fresh(used) == CHOOSE i \in DataIds \ used : \A j \in DataIds \ used : i <= j
\* unreachable objects are reclaimed
Collect(h, live) == [i \in DataIds |-> IF i \in live THEN h[i] ELSE FreeCell]

\* ------------------------------------------------------------------ Series
is_num(x) == x.t \in NUM_TYPES
is_tuple(x) == x.t = "tuple"

MixedShape_either(items) ==
    \/ MaxBool([i \in 1..Len(items) |-> is_num(items[i])])
    \/ MaxBool([i \in 1..Len(items) |-> is_tuple(items[i])])

\* the test of the elif that raises the mixed-shape error
MixedShape(items) ==
    /\ MaxBool([i \in 1..Len(items) |-> is_num(items[i])])
    /\ MaxBool([i \in 1..Len(items) |-> is_tuple(items[i])])

Series_item_alias(h, item, fresh) ==
    IF item.t = "Data"
    THEN [heap |-> h, ref |-> item.n, err |-> OK]
    ELSE LET r == Data_init(None, item)
         IN  IF r.err # OK THEN [heap |-> h, ref |-> 0, err |-> r.err]
             ELSE [heap |-> [h EXCEPT ![fresh] = r.obj], ref |-> fresh, err |-> OK]

\* one turn of the loop: item.copy() for a Data, Data(content=item) otherwise;
\* the object made is put in cell fresh
Series_item(h, item, fresh) ==
    LET r == IF item.t = "Data" THEN Data_copy(h[item.n])
             ELSE Data_init(None, item)
    IN  IF r.err # OK THEN [heap |-> h, ref |-> 0, err |-> r.err]
        ELSE [heap |-> [h EXCEPT ![fresh] = r.obj], ref |-> fresh, err |-> OK]

list_insert_front(l, x) == <<x>> \o l

\* list.append
list_append(l, x) == Append(l, x)

\* the for loop over the input list: a raise leaves what was appended so far
RECURSIVE Series_fill(_, _, _, _)
Series_fill(h, used, acc, items) ==
    IF items = <<>> THEN [heap |-> h, content |-> acc, err |-> OK]
    ELSE CHOOSE res \in
            {IF r.err # OK THEN [heap |-> h, content |-> acc, err |-> r.err]
             ELSE Series_fill(r.heap, used, list_append(acc, r.ref), Tail(items)) :
                r \in {Series_item(h, Head(items), Fresh(used \cup Range(acc)))}} : TRUE

\* Series.content setter; used: the cells the caller's references point to
Series_content(h, used, old, content) ==
    IF content.t = "none" THEN [heap |-> h, content |-> <<>>, err |-> OK]
    ELSE IF content.t # "list"
    THEN [heap |-> h, content |-> <<>>, err |-> InvalidSeriesType]
    ELSE IF Len(content.e) = 0 THEN [heap |-> h, content |-> <<>>, err |-> OK]
    ELSE IF MixedShape(content.e)
    THEN [heap |-> h, content |-> old, err |-> InvalidSeriesMixedShape]
    ELSE Series_fill(h, used, <<>>, content.e)

\* Series.name setter
Series_name(old, nm) ==
    IF nm.t \in STR_TYPES /\ Len(nm.s) > 0 THEN [name |-> nm, err |-> OK]
    ELSE IF nm.t = "none" THEN [name |-> None, err |-> OK]
    ELSE [name |-> None, err |-> InvalidNameType]

\* Series.__init__: name first, then content; a raise discards the object
Series_init(h, used, nm, content) ==
    LET rn == Series_name(Unset, nm)
        rc == Series_content(h, used, <<>>, content)
    IN  IF rn.err # OK
        THEN [heap |-> h, name |-> None, content |-> <<>>, err |-> rn.err]
        ELSE IF rc.err # OK
        THEN [heap |-> h, name |-> None, content |-> <<>>, err |-> rc.err]
        ELSE [heap |-> rc.heap, name |-> rn.name, content |-> rc.content, err |-> OK]

\* Series.clear
Series_clear(h, used, nm, old) ==
    LET rn == Series_name(nm, None)
        rc == Series_content(h, used, old, List(<<>>))
    IN  [heap |-> rc.heap, name |-> rn.name, content |-> rc.content, err |-> OK]

\* Series.__len__
Series_len(sc) == Len(sc)

\* ------------------------------------------------------------------- state
VARIABLES
    heap,       \* the Data objects: cell -> [live, name, content]
    a, b,       \* the caller's Data variables: a cell, or 0 when unbound
    lst,        \* the caller's list: raw values and references to Data
    s_name,     \* the caller's Series: _name
    s_content,  \* the caller's Series: _content, the cells of its Data
    lastOp,     \* the last call made
    lastErr,    \* its outcome
    arg,        \* its content argument (None when it has none)
    tgt         \* the Data cell it was made on (0 when none)

vars == <<heap, a, b, lst, s_name, s_content, lastOp, lastErr, arg, tgt>>

\* ------------------------------------------------------------------ inputs
Nums == {Num(0), Num(1)}
Atoms == Nums \cup {Str("x")}
TuplesOf(n) == {Tup(es) : es \in [1..n -> Atoms]}
ContentInputs ==
    {None, Str("x"), List(<<Num(1), Num(1)>>)} \cup Nums
        \cup UNION {TuplesOf(n) : n \in 0..MaxTupleLen}
SmallContentInputs == {None, Num(1)}
NameInputs == {None, Str("a"), Str(""), Num(1)}
SmallNameInputs == {None, Str("a"), Str("")}
ElemInputs == {None, Num(1), Tup(<<Num(1), Num(1)>>)}
Bound == {a, b} \ {0}

\* a = Data(), s = Series()
Init ==
    /\ heap = [i \in DataIds |-> IF i = 1 THEN Data_init(None, None).obj ELSE FreeCell]
    /\ a = 1
    /\ b = 0
    /\ lst = <<>>
    /\ s_name = None
    /\ s_content = <<>>
    /\ lastOp = "init"
    /\ lastErr = OK
    /\ arg = None
    /\ tgt = 0

\* ----------------------------------------------------------------- actions
\* a = Data(nm, c)
DataConstruct(nm, c) ==
    \E r \in {Data_init(nm, c)}, fresh \in {Fresh(Live(0, b, lst, s_content))} :
        /\ lastOp' = "Data"
        /\ lastErr' = r.err
        /\ arg' = c
        /\ IF r.err = OK
           THEN /\ a' = fresh
                /\ tgt' = fresh
                /\ heap' = Collect([heap EXCEPT ![fresh] = r.obj],
                                   Live(fresh, b, lst, s_content))
           ELSE /\ tgt' = 0
                /\ UNCHANGED <<a, heap>>
        /\ UNCHANGED <<b, lst, s_name, s_content>>

\* d.content = c, d the Data in cell r
DataSetContent(r, c) ==
    \E res \in {Data_content(heap[r].content, c)} :
        /\ lastOp' = "Data.content"
        /\ lastErr' = res.err
        /\ arg' = c
        /\ tgt' = r
        /\ heap' = [heap EXCEPT ![r].content = res.content]
        /\ UNCHANGED <<a, b, lst, s_name, s_content>>

\* d.name = nm
DataSetName(r, nm) ==
    \E res \in {Data_name(heap[r].name, nm)} :
        /\ lastOp' = "Data.name"
        /\ lastErr' = res.err
        /\ arg' = None
        /\ tgt' = r
        /\ heap' = [heap EXCEPT ![r].name = res.name]
        /\ UNCHANGED <<a, b, lst, s_name, s_content>>

\* d.clear()
DataClear(r) ==
    /\ lastOp' = "Data.clear"
    /\ lastErr' = OK
    /\ arg' = None
    /\ tgt' = r
    /\ heap' = [heap EXCEPT ![r] = Data_clear(heap[r])]
    /\ UNCHANGED <<a, b, lst, s_name, s_content>>

\* b = a.copy()
DataCopy ==
    \E r \in {Data_copy(heap[a])}, fresh \in {Fresh(Live(a, 0, lst, s_content))} :
        /\ lastOp' = "Data.copy"
        /\ lastErr' = r.err
        /\ arg' = None
        /\ tgt' = a
        /\ IF r.err = OK
           THEN /\ b' = fresh
                /\ heap' = Collect([heap EXCEPT ![fresh] = r.obj],
                                   Live(a, fresh, lst, s_content))
           ELSE UNCHANGED <<b, heap>>
        /\ UNCHANGED <<a, lst, s_name, s_content>>

\* lst.append(e)
ListAppend(e) ==
    /\ Len(lst) < MaxLen
    /\ lastOp' = "list.append"
    /\ lastErr' = OK
    /\ arg' = None
    /\ tgt' = 0
    /\ lst' = Append(lst, e)
    /\ UNCHANGED <<heap, a, b, s_name, s_content>>

\* lst.pop()
ListPop ==
    /\ Len(lst) > 0
    /\ lastOp' = "list.pop"
    /\ lastErr' = OK
    /\ arg' = None
    /\ tgt' = 0
    /\ lst' = SubSeq(lst, 1, Len(lst) - 1)
    /\ UNCHANGED <<heap, a, b, s_name, s_content>>

\* s = Series(nm, c)
SeriesConstruct(nm, c) ==
    \E r \in {Series_init(heap, Live(a, b, lst, <<>>), nm, c)} :
        /\ lastOp' = "Series"
        /\ lastErr' = r.err
        /\ arg' = c
        /\ tgt' = 0
        /\ IF r.err = OK
           THEN /\ s_name' = r.name
                /\ s_content' = r.content
                /\ heap' = Collect(r.heap, Live(a, b, lst, r.content))
           ELSE UNCHANGED <<s_name, s_content, heap>>
        /\ UNCHANGED <<a, b, lst>>

\* s.content = c
SeriesSetContent(c) ==
    \E r \in {Series_content(heap, Live(a, b, lst, <<>>), s_content, c)} :
        /\ lastOp' = "Series.content"
        /\ lastErr' = r.err
        /\ arg' = c
        /\ tgt' = 0
        /\ s_content' = r.content
        /\ heap' = Collect(r.heap, Live(a, b, lst, r.content))
        /\ UNCHANGED <<a, b, lst, s_name>>

\* s.name = nm
SeriesSetName(nm) ==
    \E res \in {Series_name(s_name, nm)} :
        /\ lastOp' = "Series.name"
        /\ lastErr' = res.err
        /\ arg' = None
        /\ tgt' = 0
        /\ s_name' = res.name
        /\ UNCHANGED <<heap, a, b, lst, s_content>>

\* s.clear()
SeriesClear ==
    \E r \in {Series_clear(heap, Live(a, b, lst, <<>>), s_name, s_content)} :
        /\ lastOp' = "Series.clear"
        /\ lastErr' = r.err
        /\ arg' = None
        /\ tgt' = 0
        /\ s_name' = r.name
        /\ s_content' = r.content
        /\ heap' = Collect(r.heap, Live(a, b, lst, r.content))
        /\ UNCHANGED <<a, b, lst>>

\* the calls a caller makes on one Data object, with every shape of content
NextData ==
    \/ \E nm \in SmallNameInputs, c \in ContentInputs : DataConstruct(nm, c)
    \/ \E c \in ContentInputs : DataSetContent(a, c)
    \/ \E nm \in NameInputs : DataSetName(a, nm)
    \/ DataClear(a)

\* the calls a caller makes on a Data object and on the copy taken of it
NextCopy ==
    \/ \E r \in Bound, c \in SmallContentInputs \cup {Str("x")} : DataSetContent(r, c)
    \/ \E r \in Bound, nm \in NameInputs : DataSetName(r, nm)
    \/ \E r \in Bound : DataClear(r)
    \/ DataCopy

\* the calls a caller makes on a Series, on its input list and on the Data
\* object it puts in the list
Next ==
    \/ \E c \in SmallContentInputs : DataSetContent(a, c)
    \/ \E nm \in SmallNameInputs : DataSetName(a, nm)
    \/ DataClear(a)
    \/ \E e \in ElemInputs \cup {Ref(a)} : ListAppend(e)
    \/ ListPop
    \/ \E nm \in SmallNameInputs, c \in {None, Tup(<<Num(1), Num(1)>>), List(lst)} :
          SeriesConstruct(nm, c)
    \/ \E c \in {None, Tup(<<Num(1), Num(1)>>), List(lst)} : SeriesSetContent(c)
    \/ \E nm \in SmallNameInputs : SeriesSetName(nm)
    \/ SeriesClear

SpecData == Init /\ [][NextData]_vars
SpecCopy == Init /\ [][NextCopy]_vars
Spec == Init /\ [][Next]_vars

\* ------------------------------------------------------------------ claims
\* a 3-tuple of numbers
IsPoint(c) == c.t = "tuple" /\ Len(c.e) = 3 /\ \A i \in 1..3 : c.e[i].t \in NUM_TYPES
\* None, a number, or a 2- or 3-tuple of numbers
Valid(c) ==
    \/ c.t = "none"
    \/ c.t \in NUM_TYPES
    \/ c.t = "tuple" /\ Len(c.e) \in {2, 3} /\ \A i \in 1..Len(c.e) : c.e[i].t \in NUM_TYPES
\* the canonical form of a valid content
Canon(c) ==
    IF c.t = "none" THEN None
    ELSE IF c.t \in NUM_TYPES THEN Tup(<<c, Num(0), Num(0)>>)
    ELSE IF Len(c.e) = 2 THEN Tup(<<c.e[1], c.e[2], Num(0)>>)
    ELSE Tup(<<c.e[1], c.e[2], c.e[3]>>)
\* what a reader of the series sees: the name and content of each element
SeriesView ==
    [i \in 1..Len(s_content) |->
        [name |-> heap[s_content[i]].name, content |-> heap[s_content[i]].content]]
DataMutators == {"Data.content", "Data.name", "Data.clear"}

\* C1: the content of the caller's Data is always None or a 3-tuple of
\* numbers, whatever calls were made on it, failed ones included.
C1_ContentNoneOrPoint ==
    heap[a].content = None \/ IsPoint(heap[a].content)

\* C2: after Set content (or Construct) with a valid content, the Data holds
\* the canonical form of that content: None, (v, 0, 0), (a, b, 0) or (a, b, c).
C2_StoresCanonicalForm ==
    /\ lastOp = "Data.content" /\ Valid(arg) => heap[tgt].content = Canon(arg)
    /\ lastOp = "Data" /\ Valid(arg) /\ lastErr = OK => heap[a].content = Canon(arg)

C2_Witness ==
    /\ lastOp = "Data.content"
    /\ arg = Tup(<<Num(0), Num(1)>>)
    /\ heap[tgt].content = Tup(<<Num(0), Num(1), Num(0)>>)

\* C3: Set content fails exactly on a value that is not None and is neither a
\* number nor a tuple, or a tuple of a length other than 2 or 3, or a tuple of
\* length 2 or 3 with a non-numeric item; a tuple of a wrong length is
\* reported as the arity failure even when it holds a non-numeric item.
C3_FailsExactlyOnInvalid ==
    lastOp = "Data.content" =>
        /\ lastErr # OK <=> ~Valid(arg)
        /\ arg.t \notin {"none", "tuple"} \cup NUM_TYPES => lastErr = InvalidContentType
        /\ arg.t = "tuple" /\ Len(arg.e) \notin {2, 3} => lastErr = InvalidContentArity
        /\ arg.t = "tuple" /\ Len(arg.e) \in {2, 3} /\ ~Valid(arg)
              => lastErr = InvalidContentElementType

C3_Witness ==
    /\ lastOp = "Data.content"
    /\ arg = Tup(<<Num(1), Str("x"), Num(1), Num(1)>>)
    /\ lastErr = InvalidContentArity

\* C4: Set content on a Series with a non-empty list raises the mixed-shape
\* error if and only if the list holds a raw number and a raw tuple; Data
\* items do not count for either.
C4_MixedShapeIffNumberAndTuple ==
    lastOp = "Series.content" /\ arg.t = "list" /\ Len(arg.e) > 0 =>
        (lastErr = InvalidSeriesMixedShape
            <=> /\ \E i \in 1..Len(arg.e) : arg.e[i].t \in NUM_TYPES
                /\ \E i \in 1..Len(arg.e) : arg.e[i].t = "tuple")

C4_Witness ==
    /\ lastOp = "Series.content"
    /\ arg = List(<<Tup(<<Num(1), Num(1)>>), Num(1)>>)
    /\ lastErr = InvalidSeriesMixedShape

\* C5: when Set content on a Series succeeds with a list, the series holds as
\* many Data as the list has items, in the list's order: for a raw number or
\* tuple an unnamed Data with its canonical 3-tuple, for a Data one of the
\* same name and content.  None and the empty list give the empty series.
C5_StoresItemsInOrder ==
    lastOp = "Series.content" /\ lastErr = OK =>
        /\ arg.t = "none" => Series_len(s_content) = 0
        /\ arg.t = "list" =>
            /\ Series_len(s_content) = Len(arg.e)
            /\ \A i \in 1..Len(arg.e) :
                /\ i <= Len(s_content)
                /\ heap[s_content[i]].live
                /\ arg.e[i].t \in NUM_TYPES \cup {"tuple"} =>
                      /\ heap[s_content[i]].name = None
                      /\ heap[s_content[i]].content = Canon(arg.e[i])
                /\ arg.e[i].t = "Data" => Data_eq(heap[s_content[i]], heap[arg.e[i].n])

C5_Witness ==
    /\ lastOp = "Series.content"
    /\ lastErr = OK
    /\ arg = List(<<Ref(a), Num(1)>>)
    /\ heap[a].name = Str("a")
    /\ Series_len(s_content) = 2

\* C6: a.copy() succeeds on every Data, the copy equals a, and no later call
\* on the copy changes a.
C6_CopyEqualAndIndependent ==
    [][/\ lastOp' = "Data.copy" =>
            /\ lastErr' = OK
            /\ b' \notin {0, a'}
            /\ Data_eq(heap'[b'], heap'[a'])
       /\ lastOp' \in DataMutators /\ tgt' = b => heap'[a].name = heap[a].name
                                                /\ heap'[a].content = heap[a].content]_vars

\* C7: a Set name or Set content that raises leaves the name and the content
\* of the Data or Series it was called on as they were.
C7_FailedMutationChangesNothing ==
    [][lastErr' # OK /\ lastOp' \in {"Data.content", "Data.name", "Series.content", "Series.name"}
          => /\ heap'[a].name = heap[a].name
             /\ heap'[a].content = heap[a].content
             /\ s_name' = s_name
             /\ SeriesView' = SeriesView]_vars

\* C8: a series never holds the caller's Data object itself, and no call on
\* the caller's Data or list changes what the series holds.
C8_SeriesOwnsItsData ==
    [][/\ \A i \in 1..Len(s_content') : s_content'[i] \notin {a', b'} \cup RefsIn(lst')
       /\ lastOp' \in DataMutators \cup {"list.append", "list.pop"}
             => SeriesView' = SeriesView]_vars

C8_Witness ==
    /\ lastOp = "Data.clear"
    /\ tgt = a
    /\ Ref(a) \in Range(lst)
    /\ \E i \in 1..Len(s_content) : heap[s_content[i]].name = Str("a")

\* C9: Set content on a Series with a list of Data objects only succeeds,
\* whatever state each Data is in.
C9_DataItemsAlwaysAccepted ==
    lastOp = "Series.content" /\ arg.t = "list"
        /\ (\A i \in 1..Len(arg.e) : arg.e[i].t = "Data")
        => lastErr = OK

\* C10: every element a series holds is a Data whose content is a 3-tuple of
\* numbers; none has content None.
C10_SeriesHoldsPointsOnly ==
    \A i \in 1..Len(s_content) :
        heap[s_content[i]].live /\ IsPoint(heap[s_content[i]].content)

TypeOK ==
    /\ a \in DataIds /\ b \in DataIds \cup {0}
    /\ \A i \in Live(a, b, lst, s_content) : heap[i].live
    /\ Len(lst) <= MaxLen /\ Len(s_content) <= MaxLen

====
